---- MODULE Spec2Model ----
(***************************************************************************)
(* A model of robot.tidy (src/src/robot/tidy.py): the command line         *)
(* validation (TidyCommandLine.validate, ArgumentValidator), the           *)
(* dispatcher (TidyCommandLine.main) and the three transforms of Tidy      *)
(* (file, inplace, directory with the suite structure visitor), run over   *)
(* a small filesystem.  The parser (Model), the writer (DataFileWriter,    *)
(* file_writer) and the structure discovery (SuiteStructureBuilder) are    *)
(* external collaborators: each is a step that succeeds or fails.          *)
(***************************************************************************)
EXTENDS Integers, Sequences, FiniteSets, TLC

VARIABLES
    host,       \* os.name of the host: decides os.linesep
    fs,         \* the filesystem: path -> entry
    fs0,        \* the filesystem when the invocation started (history)
    args,       \* positional arguments (a sequence of paths)
    opts,       \* the option dictionary validate() works on
    opts0,      \* the options as given by the caller (history)
    pc,         \* position in the program
    error,      \* message of the exception that ended the run, or NoError
    evaluated,  \* sub-validations entered so far, in order
    tidyOpts,   \* Tidy._options
    calls,      \* operations of Tidy called by main, in order
    log,        \* filesystem/collaborator steps of the transforms, in order
    tree,       \* the suite structure built by Tidy.directory
    node,       \* the node whose visit method is being entered
    stack,      \* frames of visit_directory: the directory and the next child
    paths,      \* the paths of the running Tidy.inplace call
    k,          \* index in paths of the path being processed
    ret,        \* where the running inplace call returns to
    data,       \* the parsed Model (the path it was parsed from)
    writer,     \* the sink of the transform: kind, path and state
    output,     \* value returned by Tidy.file
    console     \* what main printed

vars == <<host, fs, fs0, args, opts, opts0, pc, error, evaluated, tidyOpts,
          calls, log, tree, node, stack, paths, k, ret, data, writer,
          output, console>>

-----------------------------------------------------------------------------
(* Bounds of the model.                                                    *)

MaxArgs == 3

MaxDirectories == 2

-----------------------------------------------------------------------------
(* Python values.                                                          *)

None == [t |-> "None"]

PyStr(s) == [t |-> "str", s |-> s]

\* a string kept as its characters, where the code reads them one by one
PyChars(s) == [t |-> "chars", s |-> s]

PyInt(n) == [t |-> "int", v |-> n]

PyBool(b) == [t |-> "bool", b |-> b]

\* Python truth value: bool(x), `not x`, `x or y`
Truthy(x) ==
    CASE x.t = "None" -> FALSE
      [] x.t = "str" -> x.s # ""
      [] x.t = "chars" -> Len(x.s) > 0
      [] x.t = "int" -> x.v # 0
      [] x.t = "bool" -> x.b

\* str.upper() on the strings of the model
Upper(s) ==
    CASE s \in {"robot", "Robot", "ROBOT"} -> "ROBOT"
      [] s \in {"txt", "TXT"} -> "TXT"
      [] s \in {"html", "HTML"} -> "HTML"
      [] OTHER -> s

\* str.lower() on the strings of the model
Lower(s) ==
    CASE s \in {"native", "NATIVE"} -> "native"
      [] s \in {"windows", "Windows"} -> "windows"
      [] s \in {"unix", "UNIX"} -> "unix"
      [] s \in {"bogus", "BOGUS"} -> "bogus"
      [] OTHER -> s

LF == "\\n"

CRLF == "\\r\\n"

\* os.linesep
linesep == IF host = "nt" THEN CRLF ELSE LF

-----------------------------------------------------------------------------
(* Paths: a path is the sequence of its parts, "/" and "." being parts.    *)

PA == <<"a", ".", "txt">>

PB == <<"b", ".", "robot">>

PC == <<"c">>

PD == <<"d">>

PHidden == <<".", "robot">>

PHtml == <<"d", ".", "x", "/", "e", ".", "html">>

PDotted == <<"d", ".", "x", "/", "out">>

PUpper == <<"o", ".", "Robot">>

RunPaths == {PA, PB, PC, PD}

Paths == RunPaths \cup {PHidden, PHtml, PDotted, PUpper}

\* str.rfind(c), 1-based, 0 when absent
RFind(p, c) ==
    LET hits == {i \in 1..Len(p) : p[i] = c}
    IN IF hits = {} THEN 0 ELSE CHOOSE i \in hits : \A j \in hits : j <= i

\* os.path.splitext(p)[1]: the extension with its dot, or empty
SplitExt(p) ==
    LET sepIndex == RFind(p, "/")
        dotIndex == RFind(p, ".")
    IN IF /\ dotIndex > sepIndex
          /\ \E i \in (sepIndex + 1)..(dotIndex - 1) : p[i] # "."
       THEN SubSeq(p, dotIndex, Len(p))
       ELSE <<>>

\* os.path.splitext(p)[1][1:] as a string
Extension(p) ==
    LET e == Tail(IF SplitExt(p) = <<>> THEN <<".">> ELSE SplitExt(p))
    IN IF e = <<>> THEN "" ELSE e[1]

-----------------------------------------------------------------------------
(* The filesystem.  An entry is absent, a directory, or a file with a      *)
(* content: "good" parses, "bad" is malformed, "empty" is a file just      *)
(* opened for writing, "partial" a file whose rendering failed, "tidy" a   *)
(* rendered file.                                                          *)

Absent == [kind |-> "absent"]

Dir == [kind |-> "dir"]

File(c) == [kind |-> "file", content |-> c]

\* os.path.isfile
isfile(f, p) == f[p].kind = "file"

\* os.path.isdir
isdir(f, p) == f[p].kind = "dir"

\* robot.parsing.Model(path) succeeds
Parses(f, p) == f[p].kind = "file" /\ f[p].content \in {"good", "tidy"}

NoError == "none"

-----------------------------------------------------------------------------
(* int(x): Python's conversion of an integer or of a string of characters. *)

Digits == <<"0", "1", "2", "3", "4", "5", "6", "7", "8", "9">>

IsDigit(c) == \E i \in 1..10 : Digits[i] = c

DigitValue(c) == (CHOOSE i \in 1..10 : Digits[i] = c) - 1

RECURSIVE Strip(_)
\* str.strip(): leading and trailing blanks dropped
Strip(s) ==
    IF s = <<>> THEN s
    ELSE IF Head(s) = " " THEN Strip(Tail(s))
    ELSE IF s[Len(s)] = " " THEN Strip(SubSeq(s, 1, Len(s) - 1))
    ELSE s

RECURSIVE DigitsValue(_)
DigitsValue(s) ==
    IF s = <<>> THEN 0
    ELSE 10 * DigitsValue(SubSeq(s, 1, Len(s) - 1)) + DigitValue(s[Len(s)])

\* int(x): [ok |-> FALSE] stands for ValueError
int(x) ==
    IF x.t = "int" THEN [ok |-> TRUE, v |-> x.v]
    ELSE LET t == Strip(x.s)
             signed == t # <<>> /\ Head(t) \in {"-", "+"}
             d == IF signed THEN Tail(t) ELSE t
         IN IF d # <<>> /\ \A i \in 1..Len(d) : IsDigit(d[i])
            THEN [ok |-> TRUE,
                  v |-> IF signed /\ Head(t) = "-" THEN 0 - DigitsValue(d)
                        ELSE DigitsValue(d)]
            ELSE [ok |-> FALSE, v |-> 0]

-----------------------------------------------------------------------------
(* ArgumentValidator.  A validator returns the message of the DataError it *)
(* raises, or NoError.                                                      *)

ErrTogether == "--recursive and --inplace can not be used together."

ErrRecursiveCount == "--recursive requires exactly one argument."

ErrRecursiveDir == "--recursive requires input to be a directory."

ErrInplaceFiles == "--inplace requires inputs to be files."

ErrDefaultCount == "Default mode requires 1 or 2 arguments."

ErrDefaultFile == "Default mode requires input to be a file."

ErrFormat == "Invalid format"

ErrLineSep == "Invalid line separator"

ErrSpaceCount == "--spacecount must be an integer greater than 1."

_recursive_and_inplace_together(a, f) == ErrTogether

\* mutant: any existing path is accepted, os.path.exists for os.path.isdir
_recursive_mode_arguments_exists(a, f) ==
    IF Len(a) # 1 THEN ErrRecursiveCount
    ELSE IF f[a[1]].kind = "absent" THEN ErrRecursiveDir
    ELSE NoError

_recursive_mode_arguments(a, f) ==
    IF Len(a) # 1 THEN ErrRecursiveCount
    ELSE IF ~isdir(f, a[1]) THEN ErrRecursiveDir
    ELSE NoError

\* mutant: any() for all()
_inplace_mode_arguments_any(a, f) ==
    IF ~(\E i \in 1..Len(a) : isfile(f, a[i])) THEN ErrInplaceFiles
    ELSE NoError

_inplace_mode_arguments(a, f) ==
    IF ~(\A i \in 1..Len(a) : isfile(f, a[i])) THEN ErrInplaceFiles
    ELSE NoError

_default_mode_arguments(a, f) ==
    IF Len(a) \notin {1, 2} THEN ErrDefaultCount
    ELSE IF ~isfile(f, a[1]) THEN ErrDefaultFile
    ELSE NoError

mode_and_args(a, o, f) ==
    LET recursive == Truthy(o.recursive)
        inplace == Truthy(o.inplace)
        err == CASE recursive /\ inplace -> _recursive_and_inplace_together(a, f)
                 [] recursive /\ ~inplace -> _recursive_mode_arguments(a, f)
                 [] ~recursive /\ inplace -> _inplace_mode_arguments(a, f)
                 [] ~recursive /\ ~inplace -> _default_mode_arguments(a, f)
    IN [error |-> err, recursive |-> PyBool(recursive), inplace |-> PyBool(inplace)]

\* mutant: the format is not upper-cased before it is checked
format_without_upper(a, o) ==
    LET given == Truthy(o.format)
        fmt == IF given THEN o.format.s ELSE Extension(a[2])
    IN IF ~given /\ (Truthy(o.inplace) \/ Truthy(o.recursive) \/ Len(a) < 2)
       THEN [error |-> NoError, value |-> None]
       ELSE IF fmt \notin {"TXT", "ROBOT"}
       THEN [error |-> ErrFormat, value |-> PyStr(fmt)]
       ELSE [error |-> NoError, value |-> PyStr(fmt)]

format(a, o) ==
    LET given == Truthy(o.format)
        fmt == Upper(IF given THEN o.format.s ELSE Extension(a[2]))
    IN IF ~given /\ (Truthy(o.inplace) \/ Truthy(o.recursive) \/ Len(a) < 2)
       THEN [error |-> NoError, value |-> None]
       ELSE IF fmt \notin {"TXT", "ROBOT"}
       THEN [error |-> ErrFormat, value |-> PyStr(fmt)]
       ELSE [error |-> NoError, value |-> PyStr(fmt)]

\* mutant: the name is looked up as given, without lower()
line_sep_case_sensitive(o) ==
    LET key == IF Truthy(o.lineseparator) THEN o.lineseparator.s ELSE "native"
    IN CASE key = "native" -> [error |-> NoError, value |-> PyStr(linesep)]
         [] key = "windows" -> [error |-> NoError, value |-> PyStr(CRLF)]
         [] key = "unix" -> [error |-> NoError, value |-> PyStr(LF)]
         [] OTHER -> [error |-> ErrLineSep, value |-> o.lineseparator]

line_sep(o) ==
    LET key == Lower(IF Truthy(o.lineseparator) THEN o.lineseparator.s ELSE "native")
    IN CASE key = "native" -> [error |-> NoError, value |-> PyStr(linesep)]
         [] key = "windows" -> [error |-> NoError, value |-> PyStr(CRLF)]
         [] key = "unix" -> [error |-> NoError, value |-> PyStr(LF)]
         [] OTHER -> [error |-> ErrLineSep, value |-> o.lineseparator]

\* mutant: the limit is off by one
spacecount_accepts_one(x) ==
    LET n == int(x)
    IN IF ~n.ok \/ n.v < 1 THEN [error |-> ErrSpaceCount, value |-> x]
       ELSE [error |-> NoError, value |-> PyInt(n.v)]

spacecount(x) ==
    LET n == int(x)
    IN IF ~n.ok \/ n.v < 2 THEN [error |-> ErrSpaceCount, value |-> x]
       ELSE [error |-> NoError, value |-> PyInt(n.v)]

-----------------------------------------------------------------------------
(* The suite structure: File nodes and Directory nodes.  NoPath is the     *)
(* init_file of a directory that has none.                                 *)

NoPath == <<>>

FileNode(p) == [kind |-> "File", source |-> p]

DirNode(init, ch) == [kind |-> "Directory", init_file |-> init, children |-> ch]

RECURSIVE NodePaths(_)
\* the paths a tree names
NodePaths(n) ==
    IF n.kind = "File" THEN {n.source}
    ELSE (IF n.init_file = NoPath THEN {} ELSE {n.init_file})
         \cup UNION {NodePaths(n.children[i]) : i \in 1..Len(n.children)}

RECURSIVE NodeDirectories(_)
\* the number of Directory nodes of a tree
NodeDirectories(n) ==
    IF n.kind = "File" THEN 0
    ELSE LET RECURSIVE Sum(_)
             Sum(i) == IF i = 0 THEN 0
                       ELSE NodeDirectories(n.children[i]) + Sum(i - 1)
         IN 1 + Sum(Len(n.children))

RECURSIVE Nodes(_, _), Forests(_, _)
\* the trees over distinct paths of S with at most m Directory nodes
Nodes(S, m) ==
    {FileNode(p) : p \in S}
    \cup (IF m = 0 THEN {}
          ELSE UNION {{DirNode(init, ch) : ch \in Forests(S \ {init}, m - 1)} :
                      init \in S \cup {NoPath}})

\* the sequences of such trees, no path named twice
Forests(S, m) ==
    {<<>>}
    \cup UNION {{<<x>> \o rest :
                    rest \in Forests(S \ NodePaths(x), m - NodeDirectories(x))} :
                x \in Nodes(S, m)}

\* what SuiteStructureBuilder().build([path]) may return: a directory over
\* files that exist
Trees(f) ==
    {t \in Nodes({p \in RunPaths : isfile(f, p)}, MaxDirectories) :
        t.kind = "Directory"}

-----------------------------------------------------------------------------
(* Initial states: the inputs of one invocation.                           *)

RECURSIVE SeqsUpTo(_, _)
SeqsUpTo(S, n) ==
    IF n = 0 THEN {<<>>}
    ELSE SeqsUpTo(S, n - 1)
         \cup {Append(s, x) : s \in {t \in SeqsUpTo(S, n - 1) : Len(t) = n - 1}, x \in S}

\* Application(USAGE, arg_limits=(1,)): at least one argument
ArgLists(S) == {a \in SeqsUpTo(S, MaxArgs) : Len(a) >= 1}

Flags == {PyBool(TRUE), PyBool(FALSE)}

Options(r, i, f, p, s, l) ==
    [recursive |-> r, inplace |-> i, format |-> f, usepipes |-> p,
     spacecount |-> s, lineseparator |-> l]

\* filesystems of the runs: three files that exist well-formed, exist
\* malformed or do not exist, and a directory that exists or not
RunFilesystems ==
    {[p \in Paths |-> CASE p = PA -> a [] p = PB -> b [] p = PC -> c
                        [] p = PD -> d [] OTHER -> Absent] :
        a \in {File("good"), File("bad"), Absent},
        b \in {File("good"), File("bad"), Absent},
        c \in {File("good"), File("bad"), Absent},
        d \in {Dir, Absent}}

RunOptions ==
    {Options(r, i, o[1], PyBool(FALSE), o[2], o[3]) :
        r \in Flags, i \in Flags,
        o \in {<<None, None, None>>,
               <<PyStr("robot"), PyChars(<<"2">>), PyStr("unix")>>,
               <<PyStr("html"), None, None>>,
               <<None, None, PyStr("bogus")>>,
               <<None, PyChars(<<"1">>), None>>}}

\* runs: every filesystem and argument list, a few option sets
InitRun ==
    /\ host = "posix"
    /\ fs \in RunFilesystems
    /\ args \in ArgLists(RunPaths)
    /\ opts \in RunOptions

ValidateFilesystem ==
    [p \in Paths |-> CASE p \in {PA, PB} -> File("good") [] p = PD -> Dir
                       [] OTHER -> Absent]

FormatInputs ==
    {None, PyStr(""), PyStr("robot"), PyStr("ROBOT"), PyStr("txt"), PyStr("html")}

SpaceCountInputs ==
    {None, PyInt(0), PyInt(1), PyInt(3), PyChars(<<>>), PyChars(<<"0">>),
     PyChars(<<"1">>), PyChars(<<"4">>), PyChars(<<"1", "0">>),
     PyChars(<<"-", "3">>), PyChars(<<" ", "2">>), PyChars(<<"a", "b", "c">>)}

LineSepInputs ==
    {None, PyStr(""), PyStr("native"), PyStr("windows"), PyStr("Windows"),
     PyStr("unix"), PyStr("UNIX"), PyStr("bogus")}

ValidateArgLists ==
    {<<PA>>, <<PD>>, <<PC>>, <<PA, PB>>, <<PA, PC>>, <<PA, PHidden>>,
     <<PA, PHtml>>, <<PA, PDotted>>, <<PA, PUpper>>, <<PB, PA>>}

\* option values varied one at a time, and combinations of a valid and an
\* invalid value of each
ValidateTriples ==
    {<<f, None, None>> : f \in FormatInputs}
    \cup {<<None, s, None>> : s \in SpaceCountInputs}
    \cup {<<None, None, l>> : l \in LineSepInputs}
    \cup {<<f, s, l>> : f \in {PyStr("html"), PyStr("txt")},
                        s \in {PyChars(<<"1">>), PyChars(<<"4">>)},
                        l \in {PyStr("bogus"), PyStr("unix")}}

\* validations: every option value, one filesystem and a few argument lists
InitValidate ==
    /\ host \in {"posix", "nt"}
    /\ fs = ValidateFilesystem
    /\ args \in ValidateArgLists
    /\ opts \in {Options(r, i, o[1], PyBool(TRUE), o[2], o[3]) :
                    r \in Flags \cup {None}, i \in Flags \cup {None},
                    o \in ValidateTriples}

NoWriter == [kind |-> "none", path |-> NoPath, state |-> "none"]

Init ==
    /\ InitRun \/ InitValidate
    /\ fs0 = fs
    /\ opts0 = opts
    /\ pc = "validate"
    /\ error = NoError
    /\ evaluated = <<>>
    /\ tidyOpts = None
    /\ calls = <<>>
    /\ log = <<>>
    /\ tree = None
    /\ node = None
    /\ stack = <<>>
    /\ paths = <<>>
    /\ k = 0
    /\ ret = "none"
    /\ data = NoPath
    /\ writer = NoWriter
    /\ output = None
    /\ console = None

-----------------------------------------------------------------------------
(* TidyCommandLine.validate: the four sub-validations, in order.  A raised *)
(* DataError ends the invocation.                                          *)

Raise(msg) == pc' = "failed" /\ error' = msg

validate_mode_and_args ==
    /\ pc = "validate"
    /\ evaluated' = Append(evaluated, "mode_and_args")
    /\ LET r == mode_and_args(args, opts, fs)
       IN IF r.error # NoError
          THEN Raise(r.error) /\ opts' = opts
          ELSE /\ opts' = [opts EXCEPT !.recursive = r.recursive,
                                       !.inplace = r.inplace]
               /\ pc' = "validate_format"
               /\ error' = error
    /\ UNCHANGED <<host, fs, fs0, args, opts0, tidyOpts, calls, log, tree,
                   node, stack, paths, k, ret, data, writer, output, console>>

\* mutant: an invalid format is noted but the later checks still run
validate_format_keeps_going ==
    /\ pc = "validate_format"
    /\ evaluated' = Append(evaluated, "format")
    /\ LET r == format(args, opts)
       IN /\ opts' = IF r.error # NoError THEN opts
                     ELSE [opts EXCEPT !.format = r.value]
          /\ pc' = "validate_line_sep"
          /\ error' = r.error
    /\ UNCHANGED <<host, fs, fs0, args, opts0, tidyOpts, calls, log, tree,
                   node, stack, paths, k, ret, data, writer, output, console>>

validate_format ==
    /\ pc = "validate_format"
    /\ evaluated' = Append(evaluated, "format")
    /\ LET r == format(args, opts)
       IN IF r.error # NoError
          THEN Raise(r.error) /\ opts' = opts
          ELSE /\ opts' = [opts EXCEPT !.format = r.value]
               /\ pc' = "validate_line_sep"
               /\ error' = error
    /\ UNCHANGED <<host, fs, fs0, args, opts0, tidyOpts, calls, log, tree,
                   node, stack, paths, k, ret, data, writer, output, console>>

validate_line_sep ==
    /\ pc = "validate_line_sep"
    /\ evaluated' = Append(evaluated, "line_sep")
    /\ LET r == line_sep(opts)
       IN IF r.error # NoError
          THEN Raise(r.error) /\ opts' = opts
          ELSE /\ opts' = [opts EXCEPT !.lineseparator = r.value]
               /\ pc' = "validate_spacecount"
               /\ error' = error
    /\ UNCHANGED <<host, fs, fs0, args, opts0, tidyOpts, calls, log, tree,
                   node, stack, paths, k, ret, data, writer, output, console>>

\* opts.pop('spacecount')
Pop(o, key) == [x \in DOMAIN o \ {key} |-> o[x]]

\* mutant: only None counts as absent (is None instead of not)
validate_spacecount_is_none ==
    /\ pc = "validate_spacecount"
    /\ IF opts.spacecount = None
       THEN /\ opts' = Pop(opts, "spacecount")
            /\ pc' = "validated"
            /\ UNCHANGED <<error, evaluated>>
       ELSE /\ evaluated' = Append(evaluated, "spacecount")
            /\ LET r == spacecount(opts.spacecount)
               IN IF r.error # NoError
                  THEN Raise(r.error) /\ opts' = opts
                  ELSE /\ opts' = [opts EXCEPT !.spacecount = r.value]
                       /\ pc' = "validated"
                       /\ error' = error
    /\ UNCHANGED <<host, fs, fs0, args, opts0, tidyOpts, calls, log, tree,
                   node, stack, paths, k, ret, data, writer, output, console>>

validate_spacecount ==
    /\ pc = "validate_spacecount"
    /\ IF ~Truthy(opts.spacecount)
       THEN /\ opts' = Pop(opts, "spacecount")
            /\ pc' = "validated"
            /\ UNCHANGED <<error, evaluated>>
       ELSE /\ evaluated' = Append(evaluated, "spacecount")
            /\ LET r == spacecount(opts.spacecount)
               IN IF r.error # NoError
                  THEN Raise(r.error) /\ opts' = opts
                  ELSE /\ opts' = [opts EXCEPT !.spacecount = r.value]
                       /\ pc' = "validated"
                       /\ error' = error
    /\ UNCHANGED <<host, fs, fs0, args, opts0, tidyOpts, calls, log, tree,
                   node, stack, paths, k, ret, data, writer, output, console>>

\* Application: main(arguments, **options) is called once validate returned
execute_cli ==
    /\ pc = "validated"
    /\ pc' = "main"
    /\ UNCHANGED <<host, fs, fs0, args, opts, opts0, error, evaluated, tidyOpts,
                   calls, log, tree, node, stack, paths, k, ret, data,
                   writer, output, console>>

-----------------------------------------------------------------------------
(* TidyCommandLine.main and Tidy.__init__.                                 *)

DefaultSpaceCount == 4

\* a keyword argument of main: the option when given, else the default
Keyword(o, key, default) == IF key \in DOMAIN o THEN o[key] ELSE default

Tidy__init__(o) ==
    [format |-> Keyword(o, "format", PyStr("txt")),
     pipe_separated |-> Keyword(o, "usepipes", PyBool(FALSE)),
     txt_separating_spaces |-> Keyword(o, "spacecount", PyInt(DefaultSpaceCount)),
     line_separator |-> Keyword(o, "lineseparator", PyStr(linesep))]

Call(op, a) == [op |-> op, args |-> a]

\* mutant: in-place mode processes the first argument only
main_inplace_first_only ==
    /\ pc = "main"
    /\ tidyOpts' = Tidy__init__(opts)
    /\ IF Truthy(Keyword(opts, "recursive", PyBool(FALSE)))
       THEN /\ calls' = Append(calls, Call("directory", <<args[1]>>))
            /\ pc' = "directory"
            /\ UNCHANGED <<paths, k, ret>>
       ELSE IF Truthy(Keyword(opts, "inplace", PyBool(FALSE)))
       THEN /\ calls' = Append(calls, Call("inplace", <<args[1]>>))
            /\ paths' = <<args[1]>>
            /\ k' = 1
            /\ ret' = "main"
            /\ pc' = "inplace"
       ELSE /\ calls' = Append(calls, Call("file", args))
            /\ pc' = "file"
            /\ UNCHANGED <<paths, k, ret>>
    /\ UNCHANGED <<host, fs, fs0, args, opts, opts0, error, evaluated, log,
                   tree, node, stack, data, writer, output, console>>

main ==
    /\ pc = "main"
    /\ tidyOpts' = Tidy__init__(opts)
    /\ IF Truthy(Keyword(opts, "recursive", PyBool(FALSE)))
       THEN /\ calls' = Append(calls, Call("directory", <<args[1]>>))
            /\ pc' = "directory"
            /\ UNCHANGED <<paths, k, ret>>
       ELSE IF Truthy(Keyword(opts, "inplace", PyBool(FALSE)))
       THEN /\ calls' = Append(calls, Call("inplace", args))
            /\ paths' = args
            /\ k' = 1
            /\ ret' = "main"
            /\ pc' = "inplace"
       ELSE /\ calls' = Append(calls, Call("file", args))
            /\ pc' = "file"
            /\ UNCHANGED <<paths, k, ret>>
    /\ UNCHANGED <<host, fs, fs0, args, opts, opts0, error, evaluated, log,
                   tree, node, stack, data, writer, output, console>>

-----------------------------------------------------------------------------
(* Tidy.inplace: for each path parse, remove, open the writer, write.      *)

Step(op, p) == [op |-> op, path |-> p]

Put(f, p, e) == [f EXCEPT ![p] = e]

ErrParse == "DataError: parsing failed"

ErrRemove == "OSError: remove failed"

ErrOpen == "DataError: opening Tidy output failed"

ErrWrite == "DataError: writing failed"

\* mutant: the original is not removed before the writer is opened
\* mutant: the file is removed before it is parsed
inplace_Model_removes_first ==
    /\ pc = "inplace"
    /\ k <= Len(paths)
    /\ log' = Append(log, Step("parse", paths[k]))
    /\ IF Parses(fs, paths[k])
       THEN /\ data' = paths[k] /\ pc' = "inplace_remove" /\ error' = error
            /\ fs' = fs
       ELSE /\ Raise(ErrParse) /\ data' = data
            /\ fs' = Put(fs, paths[k], Absent)
    /\ UNCHANGED <<host, fs0, args, opts, opts0, evaluated, tidyOpts, calls,
                   tree, node, stack, paths, k, ret, writer, output, console>>

inplace_Model_without_remove ==
    /\ pc = "inplace"
    /\ k <= Len(paths)
    /\ log' = Append(log, Step("parse", paths[k]))
    /\ IF Parses(fs, paths[k])
       THEN data' = paths[k] /\ pc' = "inplace_get_writer" /\ error' = error
       ELSE Raise(ErrParse) /\ data' = data
    /\ UNCHANGED <<host, fs, fs0, args, opts, opts0, evaluated, tidyOpts, calls,
                   tree, node, stack, paths, k, ret, writer, output, console>>

\* data = Model(path)
inplace_Model ==
    /\ pc = "inplace"
    /\ k <= Len(paths)
    /\ log' = Append(log, Step("parse", paths[k]))
    /\ IF Parses(fs, paths[k])
       THEN data' = paths[k] /\ pc' = "inplace_remove" /\ error' = error
       ELSE Raise(ErrParse) /\ data' = data
    /\ UNCHANGED <<host, fs, fs0, args, opts, opts0, evaluated, tidyOpts, calls,
                   tree, node, stack, paths, k, ret, writer, output, console>>

\* mutant: the original is kept until the writer has been opened
inplace_remove_keeps_file ==
    /\ pc = "inplace_remove"
    /\ log' = Append(log, Step("remove", paths[k]))
    /\ \/ /\ fs' = fs
          /\ pc' = "inplace_get_writer"
          /\ error' = error
       \/ /\ Raise(ErrRemove)
          /\ fs' = fs
    /\ UNCHANGED <<host, fs0, args, opts, opts0, evaluated, tidyOpts, calls,
                   tree, node, stack, paths, k, ret, data, writer, output,
                   console>>

\* os.remove(path)
inplace_remove ==
    /\ pc = "inplace_remove"
    /\ log' = Append(log, Step("remove", paths[k]))
    /\ \/ /\ fs' = Put(fs, paths[k], Absent)
          /\ pc' = "inplace_get_writer"
          /\ error' = error
       \/ /\ Raise(ErrRemove)
          /\ fs' = fs
    /\ UNCHANGED <<host, fs0, args, opts, opts0, evaluated, tidyOpts, calls,
                   tree, node, stack, paths, k, ret, data, writer, output,
                   console>>

\* mutant: a failure to open the writer is swallowed and the loop goes on
inplace_get_writer_continues ==
    /\ pc = "inplace_get_writer"
    /\ log' = Append(log, Step("open", paths[k]))
    /\ \/ /\ fs' = Put(fs, paths[k], File("empty"))
          /\ writer' = [kind |-> "file", path |-> paths[k], state |-> "open"]
          /\ pc' = "inplace_save_file"
          /\ k' = k
       \/ /\ pc' = "inplace"
          /\ k' = k + 1
          /\ UNCHANGED <<fs, writer>>
    /\ UNCHANGED <<host, fs0, args, opts, opts0, error, evaluated, tidyOpts,
                   calls, tree, node, stack, paths, ret, data, output, console>>

\* self._get_writer(path): the file is created empty, or opening fails
inplace_get_writer ==
    /\ pc = "inplace_get_writer"
    /\ log' = Append(log, Step("open", paths[k]))
    /\ \/ /\ fs' = Put(fs, paths[k], File("empty"))
          /\ writer' = [kind |-> "file", path |-> paths[k], state |-> "open"]
          /\ pc' = "inplace_save_file"
          /\ error' = error
       \/ /\ Raise(ErrOpen)
          /\ UNCHANGED <<fs, writer>>
    /\ UNCHANGED <<host, fs0, args, opts, opts0, evaluated, tidyOpts, calls,
                   tree, node, stack, paths, k, ret, data, output, console>>

\* mutant: a failed write is swallowed and the loop goes on
inplace_save_file_continues ==
    /\ pc = "inplace_save_file"
    /\ log' = Append(log, Step("write", paths[k]))
    /\ \/ fs' = Put(fs, paths[k], File("tidy"))
       \/ fs' = Put(fs, paths[k], File("partial"))
    /\ k' = k + 1
    /\ pc' = "inplace"
    /\ UNCHANGED <<host, fs0, args, opts, opts0, error, evaluated, tidyOpts,
                   calls, tree, node, stack, paths, ret, data, writer, output,
                   console>>

\* self._save_file(data, output=writer), then the next path of the loop.
\* The writer is not closed by inplace.
inplace_save_file ==
    /\ pc = "inplace_save_file"
    /\ log' = Append(log, Step("write", paths[k]))
    /\ \/ /\ fs' = Put(fs, paths[k], File("tidy"))
          /\ k' = k + 1
          /\ pc' = "inplace"
          /\ error' = error
       \/ /\ Raise(ErrWrite)
          /\ fs' = Put(fs, paths[k], File("partial"))
          /\ k' = k
    /\ UNCHANGED <<host, fs0, args, opts, opts0, evaluated, tidyOpts, calls,
                   tree, node, stack, paths, ret, data, writer, output,
                   console>>

\* mutant: the loop over the paths is never left
inplace_return_never ==
    /\ pc = "inplace"
    /\ k > Len(paths)
    /\ pc' = "inplace"
    /\ UNCHANGED <<host, fs, fs0, args, opts, opts0, error, evaluated, tidyOpts,
                   calls, log, tree, node, stack, paths, k, ret, data, writer,
                   output, console>>

\* the loop is over: inplace returns to main or to the visitor
inplace_return ==
    /\ pc = "inplace"
    /\ k > Len(paths)
    /\ pc' = IF ret = "main" THEN "done" ELSE ret
    /\ UNCHANGED <<host, fs, fs0, args, opts, opts0, error, evaluated, tidyOpts,
                   calls, log, tree, node, stack, paths, k, ret, data, writer,
                   output, console>>

-----------------------------------------------------------------------------
(* Tidy.directory and the visitor.                                         *)

\* SuiteStructure.visit(visitor): the visitor method of the node's kind
visit(n) == IF n.kind = "File" THEN "visit_file" ELSE "visit_directory"

\* data = SuiteStructureBuilder().build([path]); data.visit(self)
directory ==
    /\ pc = "directory"
    /\ \E t \in Trees(fs) :
          /\ tree' = t
          /\ node' = t
          /\ pc' = visit(t)
    /\ UNCHANGED <<host, fs, fs0, args, opts, opts0, error, evaluated, tidyOpts,
                   calls, log, stack, paths, k, ret, data, writer, output,
                   console>>

\* visit_file: self.inplace(file.source)
visit_file ==
    /\ pc = "visit_file"
    /\ paths' = <<node.source>>
    /\ k' = 1
    /\ ret' = "visit_children"
    /\ pc' = "inplace"
    /\ UNCHANGED <<host, fs, fs0, args, opts, opts0, error, evaluated, tidyOpts,
                   calls, log, tree, node, stack, data, writer, output,
                   console>>

\* mutant: the init file is not processed
visit_directory_without_init ==
    /\ pc = "visit_directory"
    /\ stack' = Append(stack, [directory |-> node, child |-> 1])
    /\ pc' = "visit_children"
    /\ UNCHANGED <<host, fs, fs0, args, opts, opts0, error, evaluated, tidyOpts,
                   calls, log, tree, node, paths, k, ret, data, writer, output,
                   console>>

\* visit_directory, up to the loop: the init file, when there is one
visit_directory ==
    /\ pc = "visit_directory"
    /\ stack' = Append(stack, [directory |-> node, child |-> 1])
    /\ IF node.init_file # NoPath
       THEN /\ paths' = <<node.init_file>>
            /\ k' = 1
            /\ ret' = "visit_children"
            /\ pc' = "inplace"
       ELSE /\ pc' = "visit_children"
            /\ UNCHANGED <<paths, k, ret>>
    /\ UNCHANGED <<host, fs, fs0, args, opts, opts0, error, evaluated, tidyOpts,
                   calls, log, tree, node, data, writer, output, console>>

\* mutant: the children are visited from the last to the first
visit_directory_child_reversed ==
    /\ pc = "visit_children"
    /\ stack[Len(stack)].child <= Len(stack[Len(stack)].directory.children)
    /\ LET top == stack[Len(stack)]
           child == top.directory.children[Len(top.directory.children) + 1 - top.child]
       IN node' = child /\ pc' = visit(child)
    /\ stack' = [stack EXCEPT ![Len(stack)].child = @ + 1]
    /\ UNCHANGED <<host, fs, fs0, args, opts, opts0, error, evaluated, tidyOpts,
                   calls, log, tree, paths, k, ret, data, writer, output,
                   console>>

\* for child in directory.children: child.visit(self)
Top == stack[Len(stack)]

visit_directory_child ==
    /\ pc = "visit_children"
    /\ Top.child <= Len(Top.directory.children)
    /\ node' = Top.directory.children[Top.child]
    /\ stack' = [stack EXCEPT ![Len(stack)].child = @ + 1]
    /\ pc' = visit(Top.directory.children[Top.child])
    /\ UNCHANGED <<host, fs, fs0, args, opts, opts0, error, evaluated, tidyOpts,
                   calls, log, tree, paths, k, ret, data, writer, output,
                   console>>

\* the loop is over: visit_directory returns to the directory above, or to
\* Tidy.directory and main
visit_directory_return ==
    /\ pc = "visit_children"
    /\ Top.child > Len(Top.directory.children)
    /\ stack' = SubSeq(stack, 1, Len(stack) - 1)
    /\ pc' = IF Len(stack) = 1 THEN "done" ELSE "visit_children"
    /\ UNCHANGED <<host, fs, fs0, args, opts, opts0, error, evaluated, tidyOpts,
                   calls, log, tree, node, paths, k, ret, data, writer, output,
                   console>>

-----------------------------------------------------------------------------
(* Tidy.file(path, outpath=None) and the print of its result.              *)

InPath == args[1]

\* the second positional when given: outpath keeps its default None without
OutPath == IF Len(args) >= 2 THEN args[2] ELSE NoPath

\* data = Model(path)
\* mutant: the writer is opened before the input is parsed
file_Model_opens_first ==
    /\ pc = "file"
    /\ log' = Append(log, Step("parse", InPath))
    /\ fs' = IF OutPath # NoPath /\ ~isdir(fs, OutPath)
             THEN Put(fs, OutPath, File("empty")) ELSE fs
    /\ IF Parses(fs, InPath)
       THEN data' = InPath /\ pc' = "file_get_writer" /\ error' = error
       ELSE Raise(ErrParse) /\ data' = data
    /\ UNCHANGED <<host, fs0, args, opts, opts0, evaluated, tidyOpts, calls,
                   tree, node, stack, paths, k, ret, writer, output, console>>

file_Model ==
    /\ pc = "file"
    /\ log' = Append(log, Step("parse", InPath))
    /\ IF Parses(fs, InPath)
       THEN data' = InPath /\ pc' = "file_get_writer" /\ error' = error
       ELSE Raise(ErrParse) /\ data' = data
    /\ UNCHANGED <<host, fs, fs0, args, opts, opts0, evaluated, tidyOpts, calls,
                   tree, node, stack, paths, k, ret, writer, output, console>>

\* mutant: without an output path the writer is opened on the input path
file_get_writer_defaults_to_input ==
    /\ pc = "file_get_writer"
    /\ LET out == IF OutPath # NoPath THEN OutPath ELSE InPath
       IN /\ log' = Append(log, Step("open", out))
          /\ \/ /\ ~isdir(fs, out)
                /\ fs' = Put(fs, out, File("empty"))
                /\ writer' = [kind |-> "file", path |-> out, state |-> "open"]
                /\ pc' = "file_save_file"
                /\ error' = error
             \/ /\ Raise(ErrOpen)
                /\ UNCHANGED <<fs, writer>>
    /\ UNCHANGED <<host, fs0, args, opts, opts0, evaluated, tidyOpts, calls,
                   tree, node, stack, paths, k, ret, data, output, console>>

\* with self._get_writer(outpath) as writer: a file at outpath, or a buffer
file_get_writer ==
    /\ pc = "file_get_writer"
    /\ IF OutPath # NoPath
       THEN /\ log' = Append(log, Step("open", OutPath))
            /\ \/ /\ ~isdir(fs, OutPath)
                  /\ fs' = Put(fs, OutPath, File("empty"))
                  /\ writer' = [kind |-> "file", path |-> OutPath, state |-> "open"]
                  /\ pc' = "file_save_file"
                  /\ error' = error
               \/ /\ Raise(ErrOpen)
                  /\ UNCHANGED <<fs, writer>>
       ELSE /\ writer' = [kind |-> "buffer", path |-> NoPath, state |-> "open"]
            /\ pc' = "file_save_file"
            /\ UNCHANGED <<fs, log, error>>
    /\ UNCHANGED <<host, fs0, args, opts, opts0, evaluated, tidyOpts, calls,
                   tree, node, stack, paths, k, ret, data, output, console>>

\* mutant: a failing save leaves the writer open
file_save_file_leaves_open ==
    /\ pc = "file_save_file"
    /\ log' = Append(log, Step("write", writer.path))
    /\ \/ /\ fs' = IF writer.kind = "file" THEN Put(fs, writer.path, File("tidy"))
                   ELSE fs
          /\ pc' = "file_return"
          /\ UNCHANGED <<error, writer>>
       \/ /\ Raise(ErrWrite)
          /\ fs' = IF writer.kind = "file" THEN Put(fs, writer.path, File("partial"))
                   ELSE fs
          /\ writer' = writer
    /\ UNCHANGED <<host, fs0, args, opts, opts0, evaluated, tidyOpts, calls,
                   tree, node, stack, paths, k, ret, data, output, console>>

\* self._save_file(data, writer); a failure leaves the with block, which
\* closes the writer
file_save_file ==
    /\ pc = "file_save_file"
    /\ log' = Append(log, Step("write", writer.path))
    /\ \/ /\ fs' = IF writer.kind = "file" THEN Put(fs, writer.path, File("tidy"))
                   ELSE fs
          /\ pc' = "file_return"
          /\ UNCHANGED <<error, writer>>
       \/ /\ Raise(ErrWrite)
          /\ fs' = IF writer.kind = "file" THEN Put(fs, writer.path, File("partial"))
                   ELSE fs
          /\ writer' = [writer EXCEPT !.state = "closed"]
    /\ UNCHANGED <<host, fs0, args, opts, opts0, evaluated, tidyOpts, calls,
                   tree, node, stack, paths, k, ret, data, output, console>>

\* if not outpath: return writer.getvalue()...; the with block closes the
\* writer
file_return ==
    /\ pc = "file_return"
    /\ output' = IF OutPath = NoPath THEN PyStr("tidy") ELSE None
    /\ writer' = [writer EXCEPT !.state = "closed"]
    /\ pc' = "console"
    /\ UNCHANGED <<host, fs, fs0, args, opts, opts0, error, evaluated, tidyOpts,
                   calls, log, tree, node, stack, paths, k, ret, data, console>>

\* self.console(output)
main_console ==
    /\ pc = "console"
    /\ console' = output
    /\ pc' = "done"
    /\ UNCHANGED <<host, fs, fs0, args, opts, opts0, error, evaluated, tidyOpts,
                   calls, log, tree, node, stack, paths, k, ret, data, writer,
                   output>>

-----------------------------------------------------------------------------
Next ==
    \/ validate_mode_and_args
    \/ validate_format
    \/ validate_line_sep
    \/ validate_spacecount
    \/ execute_cli
    \/ main
    \/ inplace_Model
    \/ inplace_remove
    \/ inplace_get_writer
    \/ inplace_save_file
    \/ inplace_return
    \/ directory
    \/ visit_file
    \/ visit_directory
    \/ visit_directory_child
    \/ visit_directory_return
    \/ file_Model
    \/ file_get_writer
    \/ file_save_file
    \/ file_return
    \/ main_console

Spec == Init /\ [][Next]_vars

\* Every call of the program returns or raises (parse, remove, open and
\* write are blocking calls, there is one thread and no cancellation), so a
\* step that can be taken is eventually taken.
FairSpec == Spec /\ WF_vars(Next)

-----------------------------------------------------------------------------
(* What the properties speak of.                                           *)

IsPrefix(a, b) == Len(a) <= Len(b) /\ a = SubSeq(b, 1, Len(a))

\* the mode the caller asked for
AskedRecursive == Truthy(opts0.recursive)

AskedInplace == Truthy(opts0.inplace)

ValidationPcs ==
    {"validate", "validate_format", "validate_line_sep", "validate_spacecount",
     "validated"}

\* the invocation ended in validate()
ValidationFailed == pc = "failed" /\ calls = <<>>

\* main called Tidy.inplace / Tidy.directory / Tidy.file
RunsInplace == calls # <<>> /\ calls[1].op = "inplace"

RunsDirectory == calls # <<>> /\ calls[1].op = "directory"

RunsFile == calls # <<>> /\ calls[1].op = "file"

\* the steps of one in-place rewrite
RewriteSteps(p) ==
    <<Step("parse", p), Step("remove", p), Step("open", p), Step("write", p)>>

RECURSIVE InplaceSteps(_)
InplaceSteps(ps) ==
    IF ps = <<>> THEN <<>> ELSE RewriteSteps(Head(ps)) \o InplaceSteps(Tail(ps))

\* the paths whose transform has started, in order
Started ==
    LET parses == SelectSeq(log, LAMBDA e : e.op = "parse")
    IN [i \in 1..Len(parses) |-> parses[i].path]

RECURSIVE Preorder(_)
\* depth-first pre-order of the paths of a tree: the init file, then the
\* children from the first to the last
Preorder(n) ==
    IF n.kind = "File" THEN <<n.source>>
    ELSE LET RECURSIVE Children(_)
             Children(i) ==
                 IF i > Len(n.children) THEN <<>>
                 ELSE Preorder(n.children[i]) \o Children(i + 1)
         IN (IF n.init_file = NoPath THEN <<>> ELSE <<n.init_file>>) \o Children(1)

\* the order in which a run processes its files
ProcessingOrder == IF RunsInplace THEN args ELSE Preorder(tree)

\* the errors of mode resolution
ModeErrors ==
    {ErrTogether, ErrRecursiveCount, ErrRecursiveDir, ErrInplaceFiles,
     ErrDefaultCount, ErrDefaultFile}

ModeResolved == evaluated # <<>> /\ pc # "validate"

\* the format sub-validation has run
FormatResolved == Len(evaluated) >= 2

\* the upper-cased extension of the paths of the model
UpperExtensionOf(p) ==
    CASE p = PA -> "TXT"
      [] p \in {PB, PUpper} -> "ROBOT"
      [] p = PHtml -> "HTML"
      [] OTHER -> ""

RECURSIVE Occurrences(_, _)
\* how many nodes of the tree name the path
Occurrences(n, p) ==
    IF n.kind = "File" THEN (IF n.source = p THEN 1 ELSE 0)
    ELSE LET RECURSIVE Sum(_)
             Sum(i) == IF i = 0 THEN 0
                       ELSE Occurrences(n.children[i], p) + Sum(i - 1)
         IN (IF n.init_file = p THEN 1 ELSE 0) + Sum(Len(n.children))

Times(op, p) == Cardinality({i \in 1..Len(log) : log[i] = Step(op, p)})

\* the line separator sub-validation has run
LineSepResolved == Len(evaluated) >= 3

\* the sub-validations in the order validate calls them
ValidationOrder == <<"mode_and_args", "format", "line_sep", "spacecount">>

\* what each sub-validation answers to the options as they were given
ValidationError(i) ==
    CASE i = 1 -> mode_and_args(args, opts0, fs0).error
      [] i = 2 -> format(args, opts0).error
      [] i = 3 -> line_sep(opts0).error
      [] i = 4 -> IF Truthy(opts0.spacecount)
                  THEN spacecount(opts0.spacecount).error
                  ELSE NoError

\* the position of the earliest failing sub-validation, 0 when none fails
FirstFailure ==
    IF ValidationError(1) # NoError THEN 1
    ELSE IF ValidationError(2) # NoError THEN 2
    ELSE IF ValidationError(3) # NoError THEN 3
    ELSE IF ValidationError(4) # NoError THEN 4
    ELSE 0

\* the space count step of validate has been taken
SpaceCountResolved ==
    Len(evaluated) >= 3 /\ pc # "validate_spacecount" /\ error # ErrLineSep

\* the space counts of the inputs that denote an integer >= 2
SpaceCountAccepted ==
    {<<PyInt(3), 3>>, <<PyChars(<<"2">>), 2>>, <<PyChars(<<"4">>), 4>>,
     <<PyChars(<<"1", "0">>), 10>>, <<PyChars(<<" ", "2">>), 2>>}

\* what the space count step does with a given value that is not taken as
\* absent: the check is evaluated, an accepted value becomes its integer,
\* any other value is the invalid-space-count error
SpaceCountChecked ==
    /\ Len(evaluated) = 4
    /\ evaluated[4] = "spacecount"
    /\ (\E a \in SpaceCountAccepted : a[1] = opts0.spacecount)
          => \E a \in SpaceCountAccepted :
                /\ a[1] = opts0.spacecount
                /\ error # ErrSpaceCount
                /\ opts.spacecount = PyInt(a[2])
                /\ Tidy__init__(opts).txt_separating_spaces = PyInt(a[2])
    /\ (\A a \in SpaceCountAccepted : a[1] # opts0.spacecount)
          => (error = ErrSpaceCount /\ pc = "failed" /\ calls = <<>>)

\* what the space count step does with a value taken as absent: nothing is
\* checked, no override is passed on and Tidy, built from these options,
\* uses the default
SpaceCountDefaulted ==
    /\ Len(evaluated) = 3
    /\ error # ErrSpaceCount
    /\ "spacecount" \notin DOMAIN opts
    /\ Tidy__init__(opts).txt_separating_spaces = PyInt(DefaultSpaceCount)

\* the run is over: completed, or aborted by the first failure
Terminated == pc \in {"done", "failed"}

\* no path occurs twice
Distinct(s) == \A i, j \in 1..Len(s) : s[i] = s[j] => i = j

\* the files of the start that are missing now
Missing == {p \in Paths : fs0[p].kind = "file" /\ fs[p].kind = "absent"}

-----------------------------------------------------------------------------
(* C1: Tidy.inplace(p1..pn) processes the paths in the order given; for    *)
(* each path it parses, then removes, then renders into a new file at the  *)
(* same path (opening the writer and writing), and no step on the next     *)
(* path starts before the write of the current one has finished: the steps *)
(* taken are at every moment a prefix of parse p1, remove p1, open p1,     *)
(* write p1, parse p2, ..., and all of them once the run is done, when     *)
(* every path holds its rendered file.                                     *)
C1_InplaceStepsInOrder ==
    RunsInplace =>
        /\ IsPrefix(log, InplaceSteps(args))
        /\ pc = "done" =>
              /\ log = InplaceSteps(args)
              /\ \A i \in 1..Len(args) : fs[args[i]] = File("tidy")

C1_Witness ==
    /\ RunsInplace
    /\ pc = "done"
    /\ Len(args) = 3
    /\ args[1] # args[2]
    /\ log = InplaceSteps(args)

-----------------------------------------------------------------------------
(* C3: when a parse or render failure occurs during a multi-file in-place  *)
(* run or a recursive directory run, the invocation aborts there: every    *)
(* other file processed before the failing one stays rewritten, every file *)
(* that only comes later in the processing order is exactly as it was and  *)
(* no step was taken on it, and the failing step is the last step taken.   *)
C3_AbortKeepsEarlierLeavesLater ==
    (pc = "failed" /\ (RunsInplace \/ (RunsDirectory /\ tree # None))) =>
        LET order == ProcessingOrder
            j == Len(Started)
        IN /\ j >= 1
           /\ IsPrefix(Started, order)
           /\ log[Len(log)].path = order[j]
           /\ \A i \in 1..(j - 1) :
                 order[i] # order[j] => fs[order[i]] = File("tidy")
           /\ \A i \in (j + 1)..Len(order) :
                 order[i] \notin {order[h] : h \in 1..j} =>
                     /\ fs[order[i]] = fs0[order[i]]
                     /\ \A e \in 1..Len(log) : log[e].path # order[i]

C3_Witness ==
    /\ pc = "failed"
    /\ RunsDirectory
    /\ tree # None
    /\ Len(Preorder(tree)) = 3
    /\ Len(Started) = 2
    /\ fs[Preorder(tree)[1]] = File("tidy")
    /\ fs[Preorder(tree)[3]] = fs0[Preorder(tree)[3]]

-----------------------------------------------------------------------------
(* C4: validation is completed before any transform starts and is          *)
(* read-only: while validate() runs and when it fails, no file has been    *)
(* parsed, removed, created or written; an invocation whose mode is        *)
(* Inplace and one of whose paths is not an existing file never modifies   *)
(* any file.                                                               *)
C4_FailedValidationTouchesNothing ==
    /\ (pc \in ValidationPcs \/ ValidationFailed) => (fs = fs0 /\ log = <<>>)
    /\ (AskedInplace /\ \E i \in 1..Len(args) : fs0[args[i]].kind # "file")
           => (fs = fs0 /\ log = <<>> /\ calls = <<>>)

C4_Witness ==
    /\ ValidationFailed
    /\ AskedInplace
    /\ ~AskedRecursive
    /\ Len(args) >= 2
    /\ \E i \in 1..Len(args) : fs0[args[i]].kind = "file"
    /\ \E i \in 1..Len(args) : fs0[args[i]].kind # "file"

-----------------------------------------------------------------------------
(* C5: mode resolution follows the four-row truth table: (true, true)      *)
(* fails with the conflicting-modes error whatever the arguments;          *)
(* (true, false) succeeds iff there is exactly one argument and it is an   *)
(* existing directory; (false, true) iff every argument is an existing     *)
(* file; (false, false) iff there are 1 or 2 arguments and the first is an *)
(* existing file.  On success the pair returned is the pair of boolean     *)
(* inputs, never both true.                                                *)
C5_ModeTruthTable ==
    ModeResolved =>
        LET r == AskedRecursive
            i == AskedInplace
            succeeds ==
                CASE r /\ i -> FALSE
                  [] r /\ ~i -> Len(args) = 1 /\ fs0[args[1]].kind = "dir"
                  [] ~r /\ i -> \A n \in 1..Len(args) : fs0[args[n]].kind = "file"
                  [] OTHER -> Len(args) \in {1, 2} /\ fs0[args[1]].kind = "file"
        IN /\ succeeds <=> error \notin ModeErrors
           /\ (r /\ i) => error = ErrTogether
           /\ succeeds =>
                 /\ opts.recursive = PyBool(r)
                 /\ opts.inplace = PyBool(i)
                 /\ ~(opts.recursive.b /\ opts.inplace.b)

C5_Witness ==
    /\ ModeResolved
    /\ error = NoError
    /\ AskedRecursive
    /\ opts.recursive = PyBool(TRUE)
    /\ opts.inplace = PyBool(FALSE)
    /\ opts0.inplace = None

-----------------------------------------------------------------------------
(* C2: for every tree handed to the walker the in-place transforms happen  *)
(* in depth-first pre-order: a directory's init file before any file of    *)
(* its children, the children in the order the tree lists them, all files  *)
(* of one child before any file of the next.  The paths whose transform    *)
(* has started are at every moment a prefix of the pre-order of the tree,  *)
(* and the whole pre-order once the run is done.                           *)
C2_WalkIsPreorder ==
    (RunsDirectory /\ tree # None) =>
        /\ IsPrefix(Started, Preorder(tree))
        /\ pc = "done" => Started = Preorder(tree)

\* an init file, a subdirectory listed before a file, and paths listed out
\* of their alphabetical order
C2_Witness ==
    /\ RunsDirectory
    /\ pc = "done"
    /\ tree = DirNode(PC, <<DirNode(NoPath, <<FileNode(PB)>>), FileNode(PA)>>)
    /\ Started = <<PC, PB, PA>>

-----------------------------------------------------------------------------
(* C6: the walk is total and visits nothing twice: when a recursive run    *)
(* completes without error, every File node's path and every present init  *)
(* file path of the tree has been handed to the in-place transform exactly *)
(* once (parsed once, removed once, written once), and no other path has   *)
(* been transformed.                                                       *)
C6_WalkTotalExactlyOnce ==
    (RunsDirectory /\ pc = "done") =>
        \A p \in Paths :
            /\ Times("parse", p) = Occurrences(tree, p)
            /\ Times("remove", p) = Occurrences(tree, p)
            /\ Times("write", p) = Occurrences(tree, p)
            /\ Occurrences(tree, p) = 0 => fs[p] = fs0[p]
            /\ Occurrences(tree, p) = 1 => fs[p] = File("tidy")

C6_Witness ==
    /\ RunsDirectory
    /\ pc = "done"
    /\ tree.init_file # NoPath
    /\ Len(tree.children) = 2
    /\ Cardinality({p \in Paths : Occurrences(tree, p) = 1}) = 3
    /\ \E p \in Paths : Occurrences(tree, p) = 0 /\ fs0[p] # Absent

-----------------------------------------------------------------------------
(* C7: for a validated invocation the dispatcher invokes exactly one of    *)
(* the three operations, never more: Recursive mode calls the directory    *)
(* transform on the first argument only, Inplace mode the in-place         *)
(* transform on all arguments in their order, Default mode the single-file *)
(* transform with the input path and the optional output path; before main *)
(* and after a failed validation nothing is called.                        *)
C7_ExactlyOneOperation ==
    IF pc \in ValidationPcs \cup {"main"} \/ ValidationFailed
    THEN calls = <<>>
    ELSE /\ Len(calls) = 1
         /\ calls[1] = (IF AskedRecursive THEN Call("directory", <<args[1]>>)
                        ELSE IF AskedInplace THEN Call("inplace", args)
                        ELSE Call("file", args))
         /\ RunsInplace => IsPrefix(Started, args)
         /\ RunsFile => IsPrefix(Started, <<args[1]>>)
         /\ (RunsInplace /\ pc = "done") => Started = args

C7_Witness ==
    /\ pc = "done"
    /\ calls = <<Call("inplace", args)>>
    /\ Len(args) = 3
    /\ Started = args

-----------------------------------------------------------------------------
(* C8: in in-place mode the original file is removed when the format is    *)
(* changed: after a successful in-place run with a format that differs     *)
(* from an input file's extension, no file remains at that original path.  *)
C8_FormatChangeRemovesOriginal ==
    (RunsInplace /\ pc = "done" /\ tidyOpts.format # None) =>
        \A i \in 1..Len(args) :
            Upper(Extension(args[i])) # tidyOpts.format.s => fs[args[i]] = Absent

-----------------------------------------------------------------------------
(* C9: format resolution.  A supplied format is upper-cased and accepted   *)
(* iff it is TXT or ROBOT, whatever the output file's extension; with no   *)
(* format supplied the result is unspecified (None) in Inplace or          *)
(* Recursive mode or with fewer than two positional arguments, and else    *)
(* the upper-cased extension of the second positional argument, rejected   *)
(* with the invalid-format error unless it is TXT or ROBOT (an output path *)
(* without extension is rejected).  A format is supplied when the option   *)
(* holds a non-empty string.                                               *)
C9_FormatResolution ==
    FormatResolved =>
        LET given == opts0.format \notin {None, PyStr("")}
            wanted == IF given
                      THEN (CASE opts0.format.s \in {"robot", "ROBOT"} -> "ROBOT"
                              [] opts0.format.s \in {"txt", "TXT"} -> "TXT"
                              [] OTHER -> "invalid")
                      ELSE IF AskedInplace \/ AskedRecursive \/ Len(args) < 2
                      THEN "unspecified"
                      ELSE IF UpperExtensionOf(args[2]) \in {"TXT", "ROBOT"}
                      THEN UpperExtensionOf(args[2])
                      ELSE "invalid"
        IN /\ wanted = "invalid" <=> error = ErrFormat
           /\ wanted = "unspecified" => opts.format = None
           /\ wanted \in {"TXT", "ROBOT"} => opts.format = PyStr(wanted)

\* the supplied format wins over the extension of the output file
C9_Witness ==
    /\ FormatResolved
    /\ error = NoError
    /\ opts0.format = PyStr("robot")
    /\ opts.format = PyStr("ROBOT")
    /\ Len(args) = 2
    /\ args[2] = PA

-----------------------------------------------------------------------------
(* C10: in every invocation whose validation succeeds the space count that *)
(* reaches Tidy is an integer >= 2: the value the user gave, or the        *)
(* default 4 when no override was given; 1, a negative value or a          *)
(* non-numeric string never survives validation.                           *)
C10_SpaceCountAtLeastTwo ==
    tidyOpts # None =>
        LET n == tidyOpts.txt_separating_spaces
            given == opts0.spacecount
        IN /\ n.t = "int"
           /\ n.v >= 2
           /\ given \in {None, PyInt(0), PyChars(<<>>)} => n.v = 4
           /\ given = PyInt(3) => n.v = 3
           /\ given = PyChars(<<"2">>) => n.v = 2
           /\ given = PyChars(<<"4">>) => n.v = 4
           /\ given = PyChars(<<"1", "0">>) => n.v = 10
           /\ given = PyChars(<<" ", "2">>) => n.v = 2
           /\ given \notin {PyInt(1), PyChars(<<"0">>), PyChars(<<"1">>),
                            PyChars(<<"-", "3">>), PyChars(<<"a", "b", "c">>)}

C10_Witness ==
    /\ tidyOpts # None
    /\ opts0.spacecount = PyChars(<<"1", "0">>)
    /\ tidyOpts.txt_separating_spaces = PyInt(10)

-----------------------------------------------------------------------------
(* C11: the single-file transform called without an output path has no     *)
(* filesystem side effect: it creates, removes and writes no file (the     *)
(* filesystem stays as it was, the sink is not a file) and it returns the  *)
(* rendered text; in Default mode no file is ever removed.                 *)
C11_FileWithoutOutputTouchesNothing ==
    RunsFile =>
        /\ \A e \in 1..Len(log) : log[e].op # "remove"
        /\ \A p \in Paths : fs0[p].kind = "file" => fs[p].kind = "file"
        /\ Len(args) = 1 =>
              /\ fs = fs0
              /\ writer.kind # "file"
              /\ \A e \in 1..Len(log) : log[e].op # "open"
              /\ pc \in {"console", "done"} => output = PyStr("tidy")
              /\ pc = "done" => console = PyStr("tidy")

C11_Witness ==
    /\ RunsFile
    /\ Len(args) = 1
    /\ pc = "done"
    /\ output = PyStr("tidy")
    /\ writer.kind = "buffer"
    /\ fs = fs0

-----------------------------------------------------------------------------
(* C12: line separator resolution maps the symbolic name whatever its      *)
(* case: unix to LF, windows to CRLF, native to the separator of the host, *)
(* an absent value (None or an empty string) to the same result as native, *)
(* and every other symbol fails with the invalid-line-separator error.     *)
C12_LineSeparatorResolution ==
    LineSepResolved =>
        LET given == opts0.lineseparator
            native == PyStr(IF host = "nt" THEN "\\r\\n" ELSE "\\n")
        IN /\ given \in {PyStr("unix"), PyStr("UNIX")}
                 => (error # ErrLineSep /\ opts.lineseparator = PyStr("\\n"))
           /\ given \in {PyStr("windows"), PyStr("Windows")}
                 => (error # ErrLineSep /\ opts.lineseparator = PyStr("\\r\\n"))
           /\ given \in {None, PyStr(""), PyStr("native")}
                 => (error # ErrLineSep /\ opts.lineseparator = native)
           /\ given = PyStr("bogus")
                 => (error = ErrLineSep /\ pc = "failed" /\ Len(evaluated) = 3)

C12_Witness ==
    /\ LineSepResolved
    /\ host = "nt"
    /\ opts0.lineseparator = PyStr("UNIX")
    /\ opts.lineseparator = PyStr("\\n")
    /\ pc = "validate_spacecount"

-----------------------------------------------------------------------------
(* C13: the in-place rewrite is not atomic: when opening the writer or     *)
(* rendering fails after the original was removed, the run is aborted for  *)
(* good (no further step) and the path is left without its original and    *)
(* without the rendered replacement: no file at all after a failed open,   *)
(* an incomplete file after a failed render.                               *)
C13_RemoveThenFailLosesOriginal ==
    ((RunsInplace \/ RunsDirectory) /\ pc = "failed" /\ error \in {ErrOpen, ErrWrite}) =>
        LET p == paths[k]
        IN /\ fs0[p].kind = "file"
           /\ \E e \in 1..Len(log) : log[e] = Step("remove", p)
           /\ error = ErrOpen => fs[p] = Absent
           /\ error = ErrWrite => fs[p] = File("partial")
           /\ fs[p] # File("tidy")
           /\ ~ENABLED Next

C13_Witness ==
    /\ RunsInplace
    /\ pc = "failed"
    /\ error = ErrOpen
    /\ fs0[paths[k]] = File("good")
    /\ fs[paths[k]] = Absent

-----------------------------------------------------------------------------
(* C14: validation is first-failure-wins in the order mode, format, line   *)
(* separator, space count: the checks are evaluated in that order, the     *)
(* error reported is the one of the earliest failing check, and no check   *)
(* after the earliest failing one is ever evaluated.                       *)
C14_FirstFailureWins ==
    LET first == FirstFailure
    IN /\ IsPrefix(evaluated, ValidationOrder)
       /\ first # 0 => Len(evaluated) <= first
       /\ ValidationFailed =>
             /\ first # 0
             /\ Len(evaluated) = first
             /\ error = ValidationError(first)
       /\ (first # 0 /\ Len(evaluated) = first) => ValidationFailed

C14_Witness ==
    /\ ValidationFailed
    /\ error = ErrFormat
    /\ evaluated = <<"mode_and_args", "format">>
    /\ ValidationError(3) = ErrLineSep
    /\ ValidationError(4) = ErrSpaceCount

-----------------------------------------------------------------------------
(* C15: in the single-file transform the writer, once acquired, is closed  *)
(* on every exit path: it is open only while the body of the with block    *)
(* runs, and closed after normal completion and after a render failure.    *)
C15_WriterClosedOnEveryExit ==
    RunsFile =>
        /\ writer.state = "open" => pc \in {"file_save_file", "file_return"}
        /\ (pc \in {"failed", "console", "done"} /\ writer # NoWriter)
              => writer.state = "closed"
        /\ (pc \in {"console", "done"} \/ error = ErrWrite) => writer.state = "closed"

C15_Witness ==
    /\ RunsFile
    /\ pc = "failed"
    /\ error = ErrWrite
    /\ writer.kind = "file"
    /\ writer.state = "closed"

-----------------------------------------------------------------------------
(* C16: space count resolution takes an absent input (None, an empty       *)
(* string) or the integer 0 as 'use the default': validation goes on, no   *)
(* override is passed on and Tidy uses 4. Every other input, the string    *)
(* "0" of a command line included, must parse as an integer >= 2 and is    *)
(* the invalid-space-count error otherwise.                                *)
C16_SpaceCountResolution ==
    SpaceCountResolved =>
        IF opts0.spacecount \in {None, PyChars(<<>>), PyInt(0)}
        THEN SpaceCountDefaulted
        ELSE SpaceCountChecked

C16_Witness ==
    /\ SpaceCountResolved
    /\ opts0.spacecount = PyInt(0)
    /\ pc = "validated"
    /\ "spacecount" \notin DOMAIN opts
    /\ Tidy__init__(opts).txt_separating_spaces = PyInt(4)

\* the claim as it was stated: every zero input, however it is written, is
\* taken as 'use the default'
C16_EveryZeroUsesDefault ==
    SpaceCountResolved =>
        IF opts0.spacecount \in {None, PyChars(<<>>), PyInt(0), PyChars(<<"0">>)}
        THEN SpaceCountDefaulted
        ELSE SpaceCountChecked

-----------------------------------------------------------------------------
(* C17: every in-place or recursive run over a finite list of paths or a   *)
(* finite tree terminates: it eventually reaches the completed state (all  *)
(* files processed) or the aborted state (first failure), and once there   *)
(* it never processes a file again.                                        *)
C17_RunTerminates ==
    /\ (AskedRecursive \/ AskedInplace) => <>Terminated
    /\ [][Terminated => (Terminated' /\ log' = log /\ fs' = fs)]_vars
    /\ []((pc = "done" /\ (RunsInplace \/ RunsDirectory))
             => Started = ProcessingOrder)

C17_Witness ==
    /\ RunsDirectory
    /\ pc = "done"
    /\ Len(Started) = 3
    /\ Len(stack) = 0

-----------------------------------------------------------------------------
(* C18: in an in-place or recursive run a file is removed only right after *)
(* it has itself been parsed successfully; when parsing a file fails the   *)
(* run aborts there, and that file has been neither removed nor opened nor *)
(* written: it still exists with its original content.                     *)
C18_RemovedOnlyAfterParsed ==
    (RunsInplace \/ RunsDirectory) =>
        /\ \A e \in 1..Len(log) :
              log[e].op = "remove" =>
                  /\ e > 1
                  /\ log[e - 1] = Step("parse", log[e].path)
        /\ error = ErrParse =>
              LET p == log[Len(log)].path
              IN /\ pc = "failed"
                 /\ log[Len(log)] = Step("parse", p)
                 /\ p = paths[k]
                 /\ \A e \in 1..Len(log) :
                       log[e].path = p => log[e].op = "parse"
                 /\ fs[p].kind = "file"
                 /\ fs[p] = fs0[p]

C18_Witness ==
    /\ RunsInplace
    /\ error = ErrParse
    /\ Len(Started) = 2
    /\ fs[paths[1]] = File("tidy")
    /\ fs[paths[2]] = File("bad")

-----------------------------------------------------------------------------
(* C19: in every state of an in-place or recursive run over distinct paths *)
(* at most one original file is missing, and it is the file the run is     *)
(* processing: every path processed earlier exists again, every path not   *)
(* yet reached still exists as it was.                                     *)
C19_AtMostCurrentFileMissing ==
    ((RunsInplace \/ (RunsDirectory /\ tree # None)) /\ Distinct(ProcessingOrder)) =>
        LET order == ProcessingOrder
            n == Len(Started)
        IN /\ IsPrefix(Started, order)
           /\ Cardinality(Missing) <= 1
           /\ \A p \in Missing : n > 0 /\ p = order[n]
           /\ \A i \in 1..Len(order) :
                 /\ i < n => fs[order[i]].kind = "file"
                 /\ i > n => (fs[order[i]].kind = "file" /\ fs[order[i]] = fs0[order[i]])

C19_Witness ==
    /\ RunsInplace
    /\ Distinct(args)
    /\ Len(args) = 3
    /\ pc = "inplace_get_writer"
    /\ Len(Started) = 2
    /\ Missing = {args[2]}
    /\ fs[args[1]] = File("tidy")

-----------------------------------------------------------------------------
(* C20: the single-file transform parses the input before it acquires the  *)
(* writer: when parsing fails the output path is never opened, so a file   *)
(* that exists at the output path keeps its content and an output path     *)
(* that does not exist is not created.                                     *)
C20_ParseBeforeWriter ==
    RunsFile =>
        /\ \A e \in 1..Len(log) :
              log[e].op \in {"open", "write"} =>
                  (log[1] = Step("parse", InPath) /\ data = InPath)
        /\ writer # NoWriter => (log # <<>> /\ log[1] = Step("parse", InPath))
        /\ error = ErrParse =>
              /\ pc = "failed"
              /\ log = <<Step("parse", InPath)>>
              /\ writer = NoWriter
              /\ fs = fs0
              /\ OutPath # NoPath => fs[OutPath] = fs0[OutPath]

C20_Witness ==
    /\ RunsFile
    /\ error = ErrParse
    /\ Len(args) = 2
    /\ fs0[args[2]].kind = "file"
    /\ fs[args[2]] = fs0[args[2]]
    /\ writer = NoWriter

\* the same with an output path at which nothing exists
C20_WitnessAbsent ==
    /\ RunsFile
    /\ error = ErrParse
    /\ Len(args) = 2
    /\ fs0[args[2]] = Absent
    /\ fs[args[2]] = Absent

====
